---- MODULE Spec2Model ----
(***************************************************************************)
(* A model of src/index.js, the npm-publish GitHub action: main() reads    *)
(* the push event and the configuration, processDirectory() loads the      *)
(* package version, looks for the release commit, creates and pushes the   *)
(* tag and runs the publish command; main().catch reports the outcome.     *)
(*                                                                         *)
(* Representation of strings that the code takes apart:                    *)
(*  - a commit message is the sequence of its words, joined by one space;  *)
(*  - a commit pattern is the sequence K1..Kn of the keywords of the       *)
(*    regular expression ^(?:K1|...|Kn) (\S+)  (the default pattern is     *)
(*    <<"Release", "Version">>);                                           *)
(*  - a tag template is the sequence of its pieces, the piece "%s" being   *)
(*    the placeholder; the empty sequence is the empty (unset) string;     *)
(*  - PUBLISH_ARGS is the sequence of the pieces between its spaces.       *)
(***************************************************************************)
EXTENDS Integers, Sequences, FiniteSets, TLC

VARIABLES
    environ,      \* process.env, read by getEnv
    eventFile,    \* the file at GITHUB_EVENT_PATH
    packageFile,  \* the file <dir>/package.json
    localTags,    \* refs/tags/* of the repository in the workspace
    remoteTags,   \* refs/tags/* of the remote "origin"
    run           \* per runner: the state of its current invocation of the script

vars == <<environ, eventFile, packageFile, localTags, remoteTags, run>>

-----------------------------------------------------------------------------
(* Bounds of the model *)

\* the longest list of commits of a push
MaxCommits == 2

\* how many times in sequence a runner invokes the script
MaxRuns == 2

\* the most variables the environment sets
MaxEnvSet == 2

\* the runners (CI jobs) that share the repository
NumRunners == 2

Runners == 1..NumRunners

-----------------------------------------------------------------------------
(* Values *)

\* the exit code the 'exit' event carries when a signal killed the process (null)
NullCode == -1

\* process.exitCode while nothing has assigned it (undefined)
UnsetExitCode == -1

ExitCodes == {0, 1, 128, NullCode}

Versions == {"1.2.0", "1.3.0+b"}

Messages ==
    { <<"fix", "typo">>,
      <<"Release", "1.2.0">>,
      <<"Version", "1.3.0+b">> }

RECURSIVE SeqsUpTo(_, _)
SeqsUpTo(S, n) ==
    IF n = 0 THEN {<<>>}
    ELSE LET shorter == SeqsUpTo(S, n - 1)
         IN  shorter \cup {Append(s, x) : s \in {t \in shorter : Len(t) = n - 1}, x \in S}

\* commit i of a push: its message and its identifier
Commit(i, msg) == [sha |-> "sha" \o ToString(i), message |-> msg]

CommitLists ==
    { [i \in 1..Len(ms) |-> Commit(i, ms[i])] : ms \in SeqsUpTo(Messages, MaxCommits) }

Owner == [name |-> "octocat", email |-> "octocat@example.com"]

EventFiles ==
    {[state |-> "unreadable", commits |-> <<>>]}
    \cup {[state |-> "noOwner", commits |-> <<>>]}
    \cup {[state |-> "ok", commits |-> cs] : cs \in CommitLists}

PackageFiles ==
    {[state |-> s, version |-> ""] : s \in {"unreadable", "null", "noVersion"}}
    \cup {[state |-> "ok", version |-> v] : v \in Versions}

AllEnvirons ==
    [ COMMIT_PATTERN  : {<<>>, <<"Version">>},
      CREATE_TAG      : {"", "false"},
      TAG_NAME        : {<<>>, <<"release-", "%s">>, <<"latest">>},
      TAG_MESSAGE     : {<<>>, <<"%s", " (", "%s", ")">>, <<"release">>},
      PUBLISH_COMMAND : {"", "npm", "pnpm"},
      PUBLISH_ARGS    : {<<>>, <<"--access", "public">>} ]

\* how many of the variables are set
SetCount(e) ==
    (IF e.COMMIT_PATTERN = <<>> THEN 0 ELSE 1) + (IF e.CREATE_TAG = "" THEN 0 ELSE 1)
    + (IF e.TAG_NAME = <<>> THEN 0 ELSE 1) + (IF e.TAG_MESSAGE = <<>> THEN 0 ELSE 1)
    + (IF e.PUBLISH_COMMAND = "" THEN 0 ELSE 1) + (IF e.PUBLISH_ARGS = <<>> THEN 0 ELSE 1)

Environs == {e \in AllEnvirons : SetCount(e) <= MaxEnvSet}

dir == "/github/workspace"
eventPath == "/github/workflow/event.json"

NoError == [kind |-> "none", code |-> 0, message |-> ""]
NoProc == [step |-> "none", cmd |-> <<>>, state |-> "none"]
NoCommit == [sha |-> "", message |-> <<>>]
NoConfig ==
    [ commitPattern |-> <<>>, createTag |-> FALSE, tagName |-> <<>>, tagMessage |-> <<>>,
      tagAuthor |-> [name |-> "", email |-> ""], publishCommand |-> "", publishArgs |-> <<>> ]

\* the state of an invocation before main() is called
FreshRun ==
    [ pc          |-> "idle",
      config      |-> NoConfig,
      commits     |-> <<>>,
      version     |-> "",
      foundCommit |-> NoCommit,
      proc        |-> NoProc,
      spawned     |-> <<>>,
      events      |-> <<>>,
      results     |-> <<>>,
      zombie      |-> NoProc,
      filesRead   |-> <<>>,
      console     |-> <<>>,
      outputs     |-> <<>>,
      exitCode    |-> UnsetExitCode,
      error       |-> NoError,
      runNo       |-> 1,
      history     |-> <<>> ]

-----------------------------------------------------------------------------
(* Pure helpers of the script *)

\* path.join(dir, name)
join(d, name) == d \o "/" \o name

\* process.env[name] || process.env[`INPUT_${name}`]: the value found, the empty
\* string or sequence when neither is set
getEnv(name) == environ[name]

\* str.includes("%s")
HasPlaceholder(str) == \E i \in 1..Len(str) : str[i] = "%s"

\* placeholderEnv throws: the variable is set and holds no placeholder
placeholderMissing(name) == getEnv(name) # <<>> /\ ~HasPlaceholder(getEnv(name))

\* placeholderEnv returns
placeholderEnv(name, defaultValue) ==
    IF getEnv(name) = <<>> THEN defaultValue ELSE getEnv(name)

\* arrayEnv: str ? str.split(" ") : []
arrayEnv(name) == getEnv(name)

\* words.join(sep)
RECURSIVE Joined(_, _)
Joined(words, sep) ==
    IF words = <<>> THEN ""
    ELSE IF Len(words) = 1 THEN words[1]
    ELSE words[1] \o sep \o Joined(Tail(words), sep)

\* replaceAll with the pattern not global: template.replace(/%s/, version)
RECURSIVE replaceFirst(_, _)
replaceFirst(template, version) ==
    IF template = <<>> THEN ""
    ELSE IF Head(template) = "%s" THEN version \o Joined(Tail(template), "")
    ELSE Head(template) \o replaceFirst(Tail(template), version)

\* template.replace(/%s/g, version)
RECURSIVE replaceAll(_, _)
replaceAll(template, version) ==
    IF template = <<>> THEN ""
    ELSE (IF Head(template) = "%s" THEN version ELSE Head(template))
         \o replaceAll(Tail(template), version)

\* encodeURIComponent on the strings the script passes to setOutput
encodeURIComponent(s) == IF s = "1.3.0+b" THEN "1.3.0%2Bb" ELSE s

\* setOutput(name, value): the pair printed as ::set-output name=<name>::<value>
setOutput(name, value) == <<encodeURIComponent(name), encodeURIComponent(value)>>

\* message.match(pattern): <<>> when there is no match (null), else <<match[1]>>
Match(message, pattern) ==
    IF /\ Len(message) >= 2
       /\ \E k \in 1..Len(pattern) : pattern[k] = message[1]
       /\ message[2] # ""
    THEN <<message[2]>>
    ELSE <<>>

\* the test of checkCommit's loop body
CommitMatches(config, commit, version) ==
    LET match == Match(commit.message, config.commitPattern)
    IN  match # <<>> /\ match[1] = version

\* checkCommit's loop from commit i on: the index of the commit returned, 0 when
\* the loop ends and NeutralExitError is thrown
RECURSIVE checkCommitFrom(_, _, _, _)
checkCommitFrom(config, commits, version, i) ==
    IF i > Len(commits) THEN 0
    ELSE IF CommitMatches(config, commits[i], version) THEN i
    ELSE checkCommitFrom(config, commits, version, i + 1)

\* checkCommit with the loop not returning at the first match: the last match wins
RECURSIVE checkCommitLastFrom(_, _, _, _)
checkCommitLastFrom(config, commits, version, i) ==
    IF i < 1 THEN 0
    ELSE IF CommitMatches(config, commits[i], version) THEN i
    ELSE checkCommitLastFrom(config, commits, version, i - 1)

checkCommitLast(config, commits, version) ==
    checkCommitLastFrom(config, commits, version, Len(commits))

checkCommit(config, commits, version) == checkCommitFrom(config, commits, version, 1)

\* PublishCmd with the version flags given to npm as they are to yarn
PublishCmdNpmVersion(config, version) ==
    (IF config.publishCommand = "yarn"
       THEN <<"yarn", "publish", "--non-interactive", "--new-version", version>>
     ELSE IF config.publishCommand = "npm"
       THEN <<"npm", "publish", "--new-version", version>>
     ELSE <<config.publishCommand>>)
    \o config.publishArgs

\* publishPackage: cmd followed by publishArgs
PublishCmd(config, version) ==
    (IF config.publishCommand = "yarn"
       THEN <<"yarn", "publish", "--non-interactive", "--new-version", version>>
     ELSE IF config.publishCommand = "npm"
       THEN <<"npm", "publish">>
     ELSE <<config.publishCommand>>)
    \o config.publishArgs

\* the command lines of processDirectory and createTag
SafeDirectoryCmd ==
    <<"git", "config", "--global", "--add", "safe.directory", "/github/workspace">>
ProbeCmd(tagName) == <<"git", "rev-parse", "-q", "--verify", "refs/tags/" \o tagName>>
UserNameCmd(name) == <<"git", "config", "user.name", name>>
UserEmailCmd(email) == <<"git", "config", "user.email", email>>
TagCmd(tagMessage, tagName) == <<"git", "tag", "-a", "-m", tagMessage, tagName>>
PushCmd(tagName) == <<"git", "push", "origin", "refs/tags/" \o tagName>>

\* the errors of the script
Error(message) == [kind |-> "Error", code |-> 0, message |-> message]
TypeError(message) == [kind |-> "TypeError", code |-> 0, message |-> message]
NeutralExitError(message) == [kind |-> "NeutralExitError", code |-> 0, message |-> message]
CodeText(code) == IF code = NullCode THEN "null" ELSE ToString(code)
ExitError(code) ==
    [kind |-> "ExitError", code |-> code,
     message |-> "command failed with code " \o CodeText(code)]

\* createTagFlag as the truthiness of the variable: !!getEnv("CREATE_TAG")
createTagFlagTruthy == getEnv("CREATE_TAG") # ""

\* const createTagFlag = getEnv("CREATE_TAG") !== "false"
createTagFlag == getEnv("CREATE_TAG") # "false"

\* the config object main() builds
MainConfig ==
    [ commitPattern  |-> IF getEnv("COMMIT_PATTERN") = <<>>
                           THEN <<"Release", "Version">> ELSE getEnv("COMMIT_PATTERN"),
      createTag      |-> createTagFlag,
      tagName        |-> placeholderEnv("TAG_NAME", <<"v", "%s">>),
      tagMessage     |-> placeholderEnv("TAG_MESSAGE", <<"v", "%s">>),
      tagAuthor      |-> Owner,
      publishCommand |-> IF getEnv("PUBLISH_COMMAND") = "" THEN "yarn"
                           ELSE getEnv("PUBLISH_COMMAND"),
      publishArgs    |-> arrayEnv("PUBLISH_ARGS") ]

-----------------------------------------------------------------------------
(* The steps of an invocation, as functions of its state st *)

\* run(cwd, command, ...args): the process is spawned and its promise awaited
Spawn(st, step, cmd) ==
    [st EXCEPT !.pc = "await",
               !.proc = [step |-> step, cmd |-> cmd, state |-> "running"],
               !.spawned = Append(@, cmd)]

\* Catch with process.exitCode = 0 on both branches
CatchExitZero(st, e) ==
    [st EXCEPT !.pc = "exited",
               !.proc = NoProc,
               !.error = e,
               !.outputs = Append(@, setOutput("changed", "false")),
               !.exitCode = 0,
               !.console = IF e.kind = "NeutralExitError" THEN @ ELSE Append(@, e.message)]

\* main().catch(e): the rejection of main()'s promise
Catch(st, e) ==
    [st EXCEPT !.pc = "exited",
               !.proc = NoProc,
               !.error = e,
               !.outputs = Append(@, setOutput("changed", "false")),
               !.exitCode = IF e.kind = "NeutralExitError" THEN 0 ELSE 1,
               !.console = IF e.kind = "NeutralExitError" THEN @ ELSE Append(@, e.message)]

\* createTag's tagName and tagMessage
TagName(st) == replaceAll(st.config.tagName, st.version)
TagMessage(st) == replaceAll(st.config.tagMessage, st.version)

\* publishPackage, up to its await
StartPublish(st) == Spawn(st, "publish", PublishCmd(st.config, st.version))

\* StartCreateTag without the probe: createTag starts at the git config commands
StartCreateTagNoProbe(st) == Spawn(st, "userName", UserNameCmd(st.config.tagAuthor.name))

\* createTag, up to its first await
StartCreateTag(st) == Spawn(st, "probe", ProbeCmd(TagName(st)))

\* AfterSafeDirectory with checkCommit's result not stopping the run
AfterSafeDirectoryNoStop(st) ==
    LET version == packageFile.version
        found == checkCommit(st.config, st.commits, version)
        st1 == [st EXCEPT !.version = version]
        st2 == IF found = 0 THEN st1 ELSE [st1 EXCEPT !.foundCommit = st.commits[found]]
    IN  IF st2.config.createTag THEN StartCreateTag(st2) ELSE StartPublish(st2)

\* processDirectory after `await run(... safe.directory ...)`, up to the next await
AfterSafeDirectory(st) ==
    LET version == packageFile.version
        found == checkCommit(st.config, st.commits, version)
        st1 == [st EXCEPT !.version = version]
    IN  IF found = 0
          THEN Catch(st1, NeutralExitError("No commit found for version: " \o version))
        ELSE LET st2 == [st1 EXCEPT
                           !.foundCommit = st.commits[found],
                           !.console = Append(@, "Found commit: "
                                                   \o Joined(st.commits[found].message, " "))]
             IN  IF st2.config.createTag THEN StartCreateTag(st2) ELSE StartPublish(st2)

\* AfterProbeFound throwing a plain Error
AfterProbeFoundFatal(st) == Catch(st, Error("tag already exists: " \o TagName(st)))

\* AfterProbeFound without the `if (tagExists)` return
AfterProbeFoundGoesOn(st) == Spawn(st, "userName", UserNameCmd(st.config.tagAuthor.name))

\* createTag after the probe resolved: tagExists is true
AfterProbeFound(st) ==
    Catch([st EXCEPT !.console = Append(@, "Tag already exists: " \o TagName(st))],
          NeutralExitError(""))

\* createTag after the probe's .catch returned false: tagExists is false
AfterProbeAbsent(st) == Spawn(st, "userName", UserNameCmd(st.config.tagAuthor.name))

\* createTag after each of its next three awaits
AfterUserName(st) == Spawn(st, "userEmail", UserEmailCmd(st.config.tagAuthor.email))

\* AfterUserEmail going straight to the push, the `git tag` line lost
AfterUserEmailSkipsTag(st) == Spawn(st, "push", PushCmd(TagName(st)))

\* AfterUserEmail looking at the repository's tags again before it creates the tag
AfterUserEmailRechecks(st) ==
    IF TagName(st) \in localTags THEN AfterProbeFound(st)
    ELSE Spawn(st, "tag", TagCmd(TagMessage(st), TagName(st)))

AfterUserEmail(st) == Spawn(st, "tag", TagCmd(TagMessage(st), TagName(st)))
\* AfterTag with the push left out: the package is published from the local tag
AfterTagPublishes(st) == StartPublish(st)

AfterTag(st) == Spawn(st, "push", PushCmd(TagName(st)))

\* createTag after the push, and processDirectory up to publishPackage's await
AfterPush(st) ==
    StartPublish([st EXCEPT !.console =
                    Append(@, "Tag has been created successfully: " \o TagName(st))])

\* Finish with main()'s promise never settled: the outputs are written and the
\* process stays
FinishNeverEnds(st) ==
    [st EXCEPT !.proc = NoProc,
               !.outputs = @ \o << setOutput("changed", "true"),
                                   setOutput("version", st.version),
                                   setOutput("commit", st.foundCommit.sha) >>,
               !.console = @ \o << "Version has been published successfully: " \o st.version,
                                   "Done." >>]

\* processDirectory after `await publishPackage(...)`: the outputs, and "Done."
Finish(st) ==
    [st EXCEPT !.pc = "exited",
               !.proc = NoProc,
               !.outputs = @ \o << setOutput("changed", "true"),
                                   setOutput("version", st.version),
                                   setOutput("commit", st.foundCommit.sha) >>,
               !.console = @ \o << "Version has been published successfully: " \o st.version,
                                   "Done." >>]

\* the promise of run() resolved (exit code 0): the awaiting function goes on
Resolved(st) ==
    LET step == st.proc.step
    IN  CASE step = "safeDirectory" -> AfterSafeDirectory(st)
          [] step = "probe" -> AfterProbeFound(st)
          [] step = "userName" -> AfterUserName(st)
          [] step = "userEmail" -> AfterUserEmail(st)
          [] step = "tag" -> AfterTag(st)
          [] step = "push" -> AfterPush(st)
          [] step = "publish" -> Finish(st)

\* ProbeSaysAbsent without the test of the code
ProbeSaysAbsentAnyCode(e) == e.kind = "ExitError"

\* the .catch of the tag probe: e instanceof ExitError && e.code === 1
ProbeSaysAbsent(e) == e.kind = "ExitError" /\ e.code = 1

\* Rejected with a failed command run a second time before the error propagates
RejectedRetries(st, e) ==
    IF st.proc.step = "probe" /\ ProbeSaysAbsent(e)
      THEN AfterProbeAbsent(st)
    ELSE IF Cardinality({i \in 1..Len(st.spawned) : st.spawned[i] = st.proc.cmd}) = 1
      THEN Spawn(st, st.proc.step, st.proc.cmd)
    ELSE Catch(st, e)

\* the promise of run() rejected with e
Rejected(st, e) ==
    IF st.proc.step = "probe" /\ ProbeSaysAbsent(e)
      THEN AfterProbeAbsent(st)
      ELSE Catch(st, e)

\* what the handlers of run() settle the promise with: resolve(true), written
\* NoError, or the error they reject with
RunnerResult(cmd, event, code) ==
    IF event = "error" THEN Error("command failed: " \o cmd[1])
    ELSE IF code = 0 THEN NoError
    ELSE ExitError(code)

\* the promise of run() is settled by the event, and the awaiting function goes on
Settle(st, event, code) ==
    LET res == RunnerResult(st.proc.cmd, event, code)
        st1 == [st EXCEPT !.events =
                    Append(@, [step |-> st.proc.step, event |-> event, code |-> code]),
                          !.results = Append(@, res)]
    IN  IF res = NoError THEN Resolved(st1) ELSE Rejected(st1, res)

\* SettleOnce for a promise that could be settled again
SettleAgain(st, event, code) ==
    IF st.proc.state = "running" THEN Settle(st, event, code)
    ELSE LET res == RunnerResult(st.zombie.cmd, event, code)
         IN  Catch([st EXCEPT !.events = Append(@, [step |-> st.zombie.step,
                                                     event |-> event, code |-> code]),
                              !.results = Append(@, res)],
                   res)

\* the handlers run() puts on the process, "error" and "exit" with its code, call
\* resolve or reject: a promise already settled ignores the call
SettleOnce(st, event, code) ==
    IF st.proc.state = "running" THEN Settle(st, event, code) ELSE st

-----------------------------------------------------------------------------
(* The environment: git and the publish command *)

\* the exit codes the process in flight can end with, given the repository
PossibleExitCodes(st) ==
    LET step == st.proc.step
        tag == TagName(st)
    IN  CASE step = "probe" -> (IF tag \in localTags THEN {0} ELSE {1}) \cup {128, NullCode}
          [] step = "tag" -> (IF tag \in localTags THEN {} ELSE {0}) \cup {1, 128, NullCode}
          [] step = "push" -> (IF tag \in localTags THEN {0} ELSE {}) \cup {1, 128, NullCode}
          [] OTHER -> ExitCodes

\* refs/tags/* of the workspace after the process in flight exits with code
LocalTagsAfter(st, code) ==
    IF st.proc.step = "tag" /\ code = 0 THEN localTags \cup {TagName(st)} ELSE localTags

\* refs/tags/* of origin after the process in flight exits with code
RemoteTagsAfter(st, code) ==
    IF st.proc.step = "push" /\ code = 0 THEN remoteTags \cup {TagName(st)} ELSE remoteTags

-----------------------------------------------------------------------------
(* Actions *)

\* main() up to `await readJson(eventFile)`
Main(r) ==
    /\ run[r].pc = "idle"
    /\ run' = [run EXCEPT ![r] = [@ EXCEPT !.pc = "readEvent",
                                         !.filesRead = Append(@, eventPath)]]
    /\ UNCHANGED <<environ, eventFile, packageFile, localTags, remoteTags>>

\* main() from the event file's callback to `await readJson(packageFile)`
MainAfterEvent(st) ==
    IF eventFile.state = "unreadable"
      THEN Catch(st, Error("cannot read " \o eventPath))
    ELSE IF eventFile.state = "noOwner"
      THEN Catch(st, TypeError("Cannot read properties of undefined (reading 'owner')"))
    ELSE IF placeholderMissing("TAG_NAME")
      THEN Catch(st, Error("missing placeholder in variable: TAG_NAME"))
    ELSE IF placeholderMissing("TAG_MESSAGE")
      THEN Catch(st, Error("missing placeholder in variable: TAG_MESSAGE"))
    ELSE [st EXCEPT !.pc = "readPackage",
                    !.config = MainConfig,
                    !.commits = eventFile.commits,
                    !.filesRead = Append(@, join(dir, "package.json"))]

EventRead(r) ==
    /\ run[r].pc = "readEvent"
    /\ run' = [run EXCEPT ![r] = MainAfterEvent(@)]
    /\ UNCHANGED <<environ, eventFile, packageFile, localTags, remoteTags>>

\* AfterPackage with the unreadable file rejected as a plain Error
AfterPackageFatal(st) ==
    IF packageFile.state = "unreadable"
      THEN Catch(st, Error("package file not found: " \o join(dir, "package.json")))
    ELSE IF packageFile.state \in {"null", "noVersion"}
      THEN Catch(st, Error("missing version field!"))
    ELSE Spawn(st, "safeDirectory", SafeDirectoryCmd)

\* AfterPackage with the version looked at only after the safe.directory command
AfterPackageVersionLate(st) ==
    IF packageFile.state = "unreadable"
      THEN Catch(st, NeutralExitError("package file not found: " \o join(dir, "package.json")))
    ELSE Spawn(st, "safeDirectory", SafeDirectoryCmd)

\* processDirectory from the package file's callback to the first `await run(...)`
AfterPackage(st) ==
    IF packageFile.state = "unreadable"
      THEN Catch(st, NeutralExitError("package file not found: " \o join(dir, "package.json")))
    ELSE IF packageFile.state \in {"null", "noVersion"}
      THEN Catch(st, Error("missing version field!"))
    ELSE Spawn(st, "safeDirectory", SafeDirectoryCmd)

PackageRead(r) ==
    /\ run[r].pc = "readPackage"
    /\ run' = [run EXCEPT ![r] = AfterPackage(@)]
    /\ UNCHANGED <<environ, eventFile, packageFile, localTags, remoteTags>>

\* proc.on("exit", code)
ProcExit(r) ==
    /\ run[r].pc = "await"
    /\ run[r].proc.state = "running"
    /\ \E code \in PossibleExitCodes(run[r]) :
          /\ run' = [run EXCEPT ![r] = SettleOnce(@, "exit", code)]
          /\ localTags' = LocalTagsAfter(run[r], code)
          /\ remoteTags' = RemoteTagsAfter(run[r], code)
    /\ UNCHANGED <<environ, eventFile, packageFile>>

\* proc.on("error"): the command could not be launched; the child process object
\* stays, and may still emit "exit"
ProcError(r) ==
    /\ run[r].pc = "await"
    /\ run[r].proc.state = "running"
    /\ run' = [run EXCEPT ![r] = [SettleOnce(@, "error", 0) EXCEPT !.zombie = run[r].proc]]
    /\ UNCHANGED <<environ, eventFile, packageFile, localTags, remoteTags>>

\* proc.on("exit", code) of a child process that has emitted "error": the promise
\* of its run() is settled already
LateExit(r) ==
    /\ run[r].zombie # NoProc
    /\ \E code \in ExitCodes \ {0} :
          run' = [run EXCEPT ![r] = [SettleOnce(@, "exit", code) EXCEPT !.zombie = NoProc]]
    /\ UNCHANGED <<environ, eventFile, packageFile, localTags, remoteTags>>

\* the outcome of an invocation, as main() and main().catch classify it
Outcome(st) ==
    IF st.pc # "exited" THEN "Running"
    ELSE IF st.error.kind = "none" THEN "Done"
    ELSE IF st.error.kind = "NeutralExitError" THEN "NeutralStop"
    ELSE "Fatal"

Logged(st, line) == \E i \in 1..Len(st.console) : st.console[i] = line
Spawned(st, cmd) == \E i \in 1..Len(st.spawned) : st.spawned[i] = cmd

\* the result of createTag: it returned (Created), it threw NeutralExitError
\* (AlreadyExists), it threw another error (Failure)
TagResult(st) ==
    IF ~Spawned(st, ProbeCmd(TagName(st))) THEN "NotInvoked"
    ELSE IF Logged(st, "Tag has been created successfully: " \o TagName(st)) THEN "Created"
    ELSE IF st.pc # "exited" THEN "Running"
    ELSE IF st.error.kind = "NeutralExitError" THEN "AlreadyExists"
    ELSE IF st.pc = "exited" THEN "Failure"
    ELSE "Running"

\* what is kept of an invocation that has ended
Summary(st) == [ outcome |-> Outcome(st), tag |-> TagResult(st) ]

\* the script is invoked again (require.main === module), on the same workspace;
\* history keeps the summary of the invocation before it
NewRun(r) ==
    /\ run[r].pc = "exited"
    /\ run[r].runNo < MaxRuns
    /\ run' = [run EXCEPT ![r] = [FreshRun EXCEPT !.runNo = run[r].runNo + 1,
                                                  !.history = <<Summary(run[r])>>]]
    /\ UNCHANGED <<environ, eventFile, packageFile, localTags, remoteTags>>

Step(r) ==
    \/ Main(r)
    \/ EventRead(r)
    \/ PackageRead(r)
    \/ ProcExit(r)
    \/ ProcError(r)
    \/ LateExit(r)
    \/ NewRun(r)

TagNames == {replaceAll(t, v) : t \in {<<"v", "%s">>, <<"release-", "%s">>}, v \in Versions}

Init ==
    /\ environ \in Environs
    /\ eventFile \in EventFiles
    /\ packageFile \in PackageFiles
    /\ localTags \in {{}, TagNames}
    /\ remoteTags = localTags
    /\ run = [r \in Runners |-> FreshRun]

\* one runner: the invocations follow one another
Next == Step(1)

Spec == Init /\ [][Next]_vars

\* what one invocation does, from main() to the end of its process
StepOnce(r) ==
    \/ Main(r)
    \/ EventRead(r)
    \/ PackageRead(r)
    \/ ProcExit(r)
    \/ ProcError(r)
    \/ LateExit(r)

\* one invocation, from the call of main() to the end of its process
NextOnce == StepOnce(1)

\* once invoked, node calls main() and its event loop runs the callbacks of the
\* file reads; every subprocess ends: it exits, or it fails to launch
SpecFair ==
    /\ Init
    /\ [][NextOnce]_vars
    /\ WF_vars(Main(1) \/ EventRead(1) \/ PackageRead(1))
    /\ WF_vars(ProcExit(1) \/ ProcError(1))

\* two pushes of the same release trigger the action twice: the invocations run at
\* the same time on one repository, with tagging on
InitConc ==
    /\ environ \in {e \in Environs : /\ e.CREATE_TAG = ""
                                     /\ e.COMMIT_PATTERN = <<>>
                                     /\ e.TAG_NAME \in {<<>>, <<"release-", "%s">>}
                                     /\ e.TAG_MESSAGE = <<>>
                                     /\ e.PUBLISH_COMMAND = ""
                                     /\ e.PUBLISH_ARGS = <<>>}
    /\ eventFile = [state |-> "ok", commits |-> <<Commit(1, <<"Release", "1.2.0">>)>>]
    /\ packageFile \in {p \in PackageFiles : p.state = "ok" /\ p.version = "1.2.0"}
    /\ localTags \in {{}, TagNames}
    /\ remoteTags = localTags
    /\ run = [r \in Runners |-> FreshRun]

NextConc == \E r \in Runners : StepOnce(r)

SpecConc == InitConc /\ [][NextConc]_vars

-----------------------------------------------------------------------------
(* What the pipeline observes of an invocation *)

\* the exit status of the node process: process.exitCode, 0 when it was never set
ExitStatus(st) == IF st.exitCode = UnsetExitCode THEN 0 ELSE st.exitCode

PackagePath == join(dir, "package.json")

\* the callback of the package file's read has run
PackageWasRead(st) ==
    /\ \E i \in 1..Len(st.filesRead) : st.filesRead[i] = PackagePath
    /\ st.pc # "readPackage"

ChangedFalse == <<"changed", "false">>
ChangedTrue == <<"changed", "true">>

\* event i of the invocation's subprocesses is the exit of `step` with `code`
ExitedWith(st, i, step, code) ==
    /\ i <= Len(st.events)
    /\ st.events[i] = [step |-> step, event |-> "exit", code |-> code]

\* subprocess i of the invocation has ended, and not with exit code 0
Failed(st, i) ==
    /\ i <= Len(st.events)
    /\ (st.events[i].event = "error" \/ st.events[i].code # 0)

\* some commit of the push matches the pattern with the package's version
SomeCommitMatches(st) ==
    \E i \in 1..Len(st.commits) : CommitMatches(st.config, st.commits[i], packageFile.version)

-----------------------------------------------------------------------------
(* C1 *)

PackageFileMissing(st) ==
    packageFile.state = "unreadable" /\ PackageWasRead(st) /\ st.pc = "exited"

-----------------------------------------------------------------------------
(* C2 *)

\* the version was loaded and no commit of the push matches it
LoadedAndNoMatch(st) ==
    /\ packageFile.state = "ok"
    /\ PackageWasRead(st)
    /\ ~SomeCommitMatches(st)

\* C2 as stated: once the package version is loaded and no commit matches, the
\* run ends in NeutralStop (changed=false, exit status 0) whatever the outcome of
\* any subprocess, and no tag or publish command is spawned.
C2_NoMatchIsAlwaysNeutral ==
    \A r \in Runners :
        (LoadedAndNoMatch(run[r]) /\ run[r].pc = "exited") =>
            /\ Outcome(run[r]) = "NeutralStop"
            /\ ExitStatus(run[r]) = 0
            /\ run[r].outputs = <<ChangedFalse>>
            /\ run[r].spawned = <<SafeDirectoryCmd>>

\* C2 amended: once the package version is loaded and no commit matches, the only
\* subprocess ever spawned is `git config --global --add safe.directory ...`; the
\* run ends in NeutralStop (changed=false, exit status 0) when that command exits
\* 0, and in Fatal (changed=false, exit status 1) when it fails.
C2_NoMatchIsNeutralAfterSafeDirectory ==
    \A r \in Runners :
        LoadedAndNoMatch(run[r]) =>
            /\ run[r].spawned = <<SafeDirectoryCmd>>
            /\ run[r].pc \in {"await", "exited"}
            /\ run[r].pc = "exited" =>
                  /\ Len(run[r].events) = 1
                  /\ run[r].outputs = <<ChangedFalse>>
                  /\ ExitedWith(run[r], 1, "safeDirectory", 0) =>
                        Outcome(run[r]) = "NeutralStop" /\ ExitStatus(run[r]) = 0
                  /\ Failed(run[r], 1) =>
                        Outcome(run[r]) = "Fatal" /\ ExitStatus(run[r]) = 1

C2_Witness ==
    \E r \in Runners :
        /\ LoadedAndNoMatch(run[r])
        /\ Len(run[r].commits) > 0
        /\ ExitedWith(run[r], 1, "safeDirectory", 0)
        /\ run[r].pc = "exited"

-----------------------------------------------------------------------------
(* C3 *)

\* createTag is enabled, a commit matched, and the probe found the tag
ProbeFoundTag(st) ==
    /\ st.config.createTag
    /\ st.foundCommit # NoCommit
    /\ ExitedWith(st, 2, "probe", 0)

\* C3: with createTag enabled and a matching commit, when the probe reports that
\* the rendered tag exists the run ends in NeutralStop (changed=false, exit status
\* 0) and nothing is spawned after the probe: no git config user.*, git tag, git
\* push or publish command.
C3_ExistingTagIsNeutral ==
    \A r \in Runners :
        ProbeFoundTag(run[r]) =>
            /\ Outcome(run[r]) = "NeutralStop"
            /\ ExitStatus(run[r]) = 0
            /\ run[r].outputs = <<ChangedFalse>>
            /\ run[r].spawned = <<SafeDirectoryCmd, ProbeCmd(TagName(run[r]))>>

C3_Witness ==
    \E r \in Runners : ProbeFoundTag(run[r]) /\ TagName(run[r]) = "v1.2.0"

-----------------------------------------------------------------------------
(* C4 *)

IsGitTag(cmd) == Len(cmd) >= 2 /\ cmd[1] = "git" /\ cmd[2] = "tag"
IsGitPush(cmd) == Len(cmd) >= 2 /\ cmd[1] = "git" /\ cmd[2] = "push"

\* the invocation before this one, with the same inputs and on the same
\* repository, had createTag return normally: each of its git commands succeeded
PreviousCreated(st) ==
    /\ Len(st.history) >= 1
    /\ st.history[Len(st.history)].tag = "Created"

\* the probe of this invocation ended without reporting on the ref: git could not
\* be launched, or ended with a status other than 0 and 1
ProbeBroke(st) ==
    /\ Len(st.events) >= 2
    /\ st.events[2].step = "probe"
    /\ (st.events[2].event = "error" \/ st.events[2].code \notin {0, 1})

\* C4: when createTag is invoked twice in sequence with identical inputs on the
\* same repository and the first invocation's git commands all succeed (Created),
\* the second never spawns git tag or git push and is never Created again; its
\* probe finds the tag (it cannot report it absent) and the result is
\* AlreadyExists, the only other end being a probe that itself broke.
C4_SecondCreateTagAlreadyExists ==
    \A r \in Runners :
        PreviousCreated(run[r]) =>
            /\ \A i \in 1..Len(run[r].spawned) :
                  ~IsGitTag(run[r].spawned[i]) /\ ~IsGitPush(run[r].spawned[i])
            /\ TagResult(run[r]) \in {"NotInvoked", "Running", "AlreadyExists", "Failure"}
            /\ ~ExitedWith(run[r], 2, "probe", 1)
            /\ ExitedWith(run[r], 2, "probe", 0) => TagResult(run[r]) = "AlreadyExists"
            /\ TagResult(run[r]) = "Failure" => ProbeBroke(run[r])

C4_Witness ==
    \E r \in Runners :
        /\ PreviousCreated(run[r])
        /\ ExitedWith(run[r], 2, "probe", 0)
        /\ TagResult(run[r]) = "AlreadyExists"

-----------------------------------------------------------------------------
(* C5 *)

\* the create-tag flag is "false" and the Commit Matcher returned a commit
TagSkipped(st) == getEnv("CREATE_TAG") = "false" /\ st.foundCommit # NoCommit

\* C5: when the create-tag flag is false and a commit matched, no tag probe, git
\* config user.*, git tag or git push is spawned: the publish command is spawned
\* right after the safe.directory command, and when it exits 0 the run ends in
\* Done with changed=true.
C5_FlagFalseSkipsTag ==
    \A r \in Runners :
        TagSkipped(run[r]) =>
            /\ run[r].spawned = <<SafeDirectoryCmd, PublishCmd(run[r].config, packageFile.version)>>
            /\ ExitedWith(run[r], 2, "publish", 0) =>
                  /\ Outcome(run[r]) = "Done"
                  /\ run[r].outputs[1] = ChangedTrue

C5_Witness ==
    \E r \in Runners :
        TagSkipped(run[r]) /\ ExitedWith(run[r], 2, "publish", 0) /\ Outcome(run[r]) = "Done"

-----------------------------------------------------------------------------
(* C6 *)

\* the last subprocess of the invocation was the publish command, and it exited 0
PublishExitedZero(st) ==
    /\ Len(st.events) >= 1
    /\ Len(st.events) = Len(st.spawned)
    /\ st.events[Len(st.events)] = [step |-> "publish", event |-> "exit", code |-> 0]
    /\ st.spawned[Len(st.spawned)] = PublishCmd(st.config, packageFile.version)

\* C6: terminal reporting is exact. Nothing is reported before the run ends. Done
\* is reached only after the publish command exited 0, and reports changed=true,
\* version = the package version and commit = the matched commit's identifier (as
\* setOutput percent-encodes them), with exit status 0. NeutralStop reports
\* changed=false alone, with exit status 0; Fatal reports changed=false alone, with
\* a non-zero exit status.
C6_TerminalReporting ==
    \A r \in Runners :
        LET st == run[r] IN
        /\ st.pc # "exited" => st.outputs = <<>> /\ st.exitCode = UnsetExitCode
        /\ Outcome(st) = "Done" =>
              /\ PublishExitedZero(st)
              /\ \E i \in 1..Len(st.commits) :
                    /\ CommitMatches(st.config, st.commits[i], packageFile.version)
                    /\ st.outputs = << ChangedTrue,
                                       <<"version", encodeURIComponent(packageFile.version)>>,
                                       <<"commit", st.commits[i].sha>> >>
              /\ ExitStatus(st) = 0
        /\ Outcome(st) = "NeutralStop" => st.outputs = <<ChangedFalse>> /\ ExitStatus(st) = 0
        /\ Outcome(st) = "Fatal" => st.outputs = <<ChangedFalse>> /\ ExitStatus(st) # 0

C6_Witness ==
    \E r \in Runners :
        /\ Outcome(run[r]) = "Done"
        /\ run[r].config.createTag
        /\ run[r].outputs[2] = <<"version", "1.3.0%2Bb">>

-----------------------------------------------------------------------------
(* C7 *)

\* the command line the claim gives for (publishCommand, version, extraArgs)
ClaimedPublishCmd(publishCommand, version, extraArgs) ==
    CASE publishCommand = "yarn" ->
            <<"yarn", "publish", "--non-interactive", "--new-version", version>> \o extraArgs
      [] publishCommand = "npm" -> <<"npm", "publish">> \o extraArgs
      [] OTHER -> <<publishCommand>> \o extraArgs

\* C7: the publish command line is the function of (publishCommand, version,
\* extraArgs) the claim gives: yarn with the version flags, npm without the
\* version, any other command with the extra arguments alone; and when the
\* spawned command fails (a non-zero exit, or no launch) the run ends in Fatal.
C7_PublishCommandLine ==
    \A r \in Runners :
        LET st == run[r]
            n == Len(st.spawned)
            command == IF environ.PUBLISH_COMMAND = "" THEN "yarn" ELSE environ.PUBLISH_COMMAND
        IN  \A i \in 1..n :
                ((i <= Len(st.events) /\ st.events[i].step = "publish")
                 \/ (i = n /\ st.proc.step = "publish")) =>
                    /\ st.spawned[i] =
                          ClaimedPublishCmd(command, packageFile.version, environ.PUBLISH_ARGS)
                    /\ Failed(st, i) =>
                          /\ Outcome(st) = "Fatal"
                          /\ st.outputs = <<ChangedFalse>>
                          /\ ExitStatus(st) # 0

C7_Witness ==
    \E r \in Runners :
        LET n == Len(run[r].events) IN
        /\ n >= 2
        /\ run[r].events[n].step = "publish"
        /\ Failed(run[r], n)
        /\ run[r].spawned[n] = <<"pnpm", "--access", "public">>

-----------------------------------------------------------------------------
(* C8 *)

\* the Commit Matcher has run: the safe.directory command exited 0
MatcherRan(st) == ExitedWith(st, 1, "safeDirectory", 0)

\* the Commit Matcher threw NotFound
NotFound(st) ==
    /\ st.pc = "exited"
    /\ st.error = NeutralExitError("No commit found for version: " \o packageFile.version)

\* C8: the Commit Matcher returns the first commit, in list order, whose message
\* matches the pattern with a captured text equal to the version; no earlier
\* commit matches the one returned; and it throws NotFound exactly when no commit
\* of the list matches.
C8_FirstMatchWins ==
    \A r \in Runners :
        LET st == run[r] IN
        MatcherRan(st) =>
            /\ st.foundCommit # NoCommit =>
                  \E i \in 1..Len(st.commits) :
                      /\ st.foundCommit = st.commits[i]
                      /\ CommitMatches(st.config, st.commits[i], packageFile.version)
                      /\ \A j \in 1..(i - 1) :
                            ~CommitMatches(st.config, st.commits[j], packageFile.version)
            /\ NotFound(st) <=> ~SomeCommitMatches(st)
            /\ st.foundCommit = NoCommit <=> ~SomeCommitMatches(st)

C8_Witness ==
    \E r \in Runners :
        /\ MatcherRan(run[r])
        /\ Len(run[r].commits) = 2
        /\ run[r].foundCommit = run[r].commits[1]
        /\ CommitMatches(run[r].config, run[r].commits[2], packageFile.version)

-----------------------------------------------------------------------------
(* C9 *)

\* C9: the tag probe absorbs exit status 1 alone, read as 'tag absent' (createTag
\* goes on to git config user.name); with any other non-zero status, and when git
\* cannot be launched, the run ends in Fatal and nothing is spawned after the
\* probe: no git tag, git push or publish command.
C9_ProbeAbsorbsOnlyOne ==
    \A r \in Runners :
        LET st == run[r] IN
        (Len(st.events) >= 2 /\ st.events[2].step = "probe") =>
            /\ ProbeBroke(st) =>
                  /\ Outcome(st) = "Fatal"
                  /\ ExitStatus(st) # 0
                  /\ st.outputs = <<ChangedFalse>>
                  /\ st.spawned = <<SafeDirectoryCmd, ProbeCmd(TagName(st))>>
            /\ ExitedWith(st, 2, "probe", 1) =>
                  /\ Len(st.spawned) >= 3
                  /\ st.spawned[3] = UserNameCmd(Owner.name)
                  /\ st.error.kind = "none" \/ Len(st.events) > 2

C9_Witness ==
    \E r \in Runners :
        /\ ExitedWith(run[r], 2, "probe", 128)
        /\ Outcome(run[r]) = "Fatal"

-----------------------------------------------------------------------------
(* C10 *)

IsPrefix(s, t) == Len(s) <= Len(t) /\ \A i \in 1..Len(s) : s[i] = t[i]

\* the command lines of a run that creates the tag, in order
FullSequence(st) ==
    << SafeDirectoryCmd,
       ProbeCmd(TagName(st)),
       <<"git", "config", "user.name", Owner.name>>,
       <<"git", "config", "user.email", Owner.email>>,
       <<"git", "tag", "-a", "-m", TagMessage(st), TagName(st)>>,
       <<"git", "push", "origin", "refs/tags/" \o TagName(st)>>,
       PublishCmd(st.config, packageFile.version) >>

\* C10: when the probe reports the tag absent, createTag spawns, in this order,
\* git config user.name, git config user.email, git tag -a and git push origin,
\* each once and each after the one before exited 0; when one of them fails the
\* run ends in Fatal with no later step and no publish spawned; the tag that git
\* tag created stays in the repository when the push fails, and is not on origin.
C10_TagStepsInOrder ==
    \A r \in Runners :
        LET st == run[r] IN
        ExitedWith(st, 2, "probe", 1) =>
            /\ IsPrefix(st.spawned, FullSequence(st))
            /\ Len(st.spawned) >= 3
            /\ \A i \in 1..Len(st.events) :
                  /\ i < Len(st.spawned) => (i = 2 \/ ~Failed(st, i))
                  /\ (i > 2 /\ Failed(st, i)) =>
                        /\ Len(st.spawned) = i
                        /\ Outcome(st) = "Fatal"
                        /\ ExitStatus(st) # 0
                        /\ st.outputs = <<ChangedFalse>>
            /\ ExitedWith(st, 5, "tag", 0) => TagName(st) \in localTags
            /\ (Len(st.events) = 6 /\ Failed(st, 6)) =>
                  TagName(st) \in localTags /\ TagName(st) \notin remoteTags

C10_Witness ==
    \E r \in Runners :
        /\ ExitedWith(run[r], 2, "probe", 1)
        /\ Len(run[r].events) = 6
        /\ Failed(run[r], 6)
        /\ Outcome(run[r]) = "Fatal"

\* the runners whose script has been invoked
Invoked == {r \in Runners : run[r].pc # "idle"}

-----------------------------------------------------------------------------
(* C11 *)

\* the invocation was rejected by placeholderEnv
TemplateRejected(st) ==
    /\ st.pc = "exited"
    /\ st.error.kind = "Error"
    /\ st.error.message \in {"missing placeholder in variable: TAG_NAME",
                             "missing placeholder in variable: TAG_MESSAGE"}

SomeTemplateLacksPlaceholder ==
    placeholderMissing("TAG_NAME") \/ placeholderMissing("TAG_MESSAGE")

\* the templates with every placeholder written out as the version
Substituted(template, version) ==
    CASE template = <<"v", "%s">> -> "v" \o version
      [] template = <<"release-", "%s">> -> "release-" \o version
      [] template = <<"%s", " (", "%s", ")">> -> version \o " (" \o version \o ")"

\* the tag commands the invocation has spawned carry the substituted templates
TagCommandsSubstituted(st) ==
    LET name == Substituted(st.config.tagName, packageFile.version)
        message == Substituted(st.config.tagMessage, packageFile.version)
    IN  /\ Len(st.spawned) >= 2 => st.spawned[2] = ProbeCmd(name)
        /\ Len(st.spawned) >= 5 => st.spawned[5] = TagCmd(message, name)
        /\ Len(st.spawned) >= 6 => st.spawned[6] = PushCmd(name)
        /\ Logged(st, "Tag has been created successfully: " \o name)
              \/ Len(st.events) < 6 \/ Failed(st, 6)

C11_TwoPlaceholders ==
    \E r \in Runners :
        /\ getEnv("TAG_MESSAGE") = <<"%s", " (", "%s", ")">>
        /\ ExitedWith(run[r], 5, "tag", 0)

-----------------------------------------------------------------------------
(* C12 *)

\* the child process of the run's last command emitted "error", and then "exit"
ExitAfterError(st) ==
    /\ st.events # <<>>
    /\ st.events[Len(st.events)].event = "error"
    /\ st.zombie = NoProc

\* C12: the Process Runner settles each invocation exactly once, and by the exit
\* code alone: it resolves if and only if the process exited with code 0; any other
\* exit, the null code of a process killed by a signal included, rejects with an
\* ExitError carrying that code; a process that could not be launched rejects with
\* an Error that is no ExitError, and a later "exit" of that process settles nothing.
C12_RunnerSettlesOnce ==
    \A r \in Invoked :
        LET st == run[r]
        IN  /\ Len(st.results) = Len(st.events)
            /\ Len(st.events) = Len(st.spawned) - (IF st.pc = "await" THEN 1 ELSE 0)
            /\ \A i \in 1..Len(st.events) :
                  LET ev == st.events[i]
                      res == st.results[i]
                  IN  /\ res = NoError <=> (ev.event = "exit" /\ ev.code = 0)
                      /\ (ev.event = "exit" /\ ev.code # 0) =>
                            /\ res.kind = "ExitError"
                            /\ res.code = ev.code
                            /\ res.message = "command failed with code "
                                                \o (IF ev.code = NullCode THEN "null"
                                                    ELSE ToString(ev.code))
                      /\ ev.event = "error" =>
                            /\ res.kind = "Error"
                            /\ res.message = "command failed: " \o st.spawned[i][1]
                            /\ i = Len(st.events)
                            /\ st.error = res

\* the probe could not be launched, its child process emitted "exit" afterwards, and
\* the run stays as the "error" left it
C12_Witness ==
    \E r \in Runners :
        /\ ExitAfterError(run[r])
        /\ Len(run[r].events) = 2
        /\ ExitedWith(run[r], 1, "safeDirectory", 0)
        /\ run[r].results[2] = Error("command failed: git")
        /\ run[r].outputs = <<ChangedFalse>>

-----------------------------------------------------------------------------
(* C13 *)

\* the subprocesses of the invocation that have been spawned and have not ended
InFlight(st) == Len(st.spawned) - Len(st.events)

\* subprocess i let the invocation go on: it exited 0, or it is the probe and
\* exited 1
LetGoOn(st, i) ==
    /\ i <= Len(st.events)
    /\ st.events[i].event = "exit"
    /\ \/ st.events[i].code = 0
       \/ st.events[i].step = "probe" /\ st.events[i].code = 1

\* C13: within one run the subprocesses are strictly sequential and never retried:
\* at most one is in flight at any time, each is spawned only after the one before
\* it exited 0 (or, for the probe, with the absorbed code 1), and no command line is
\* spawned twice in a run.
C13_SequentialNoRetry ==
    \A r \in Invoked :
        LET st == run[r]
        IN  /\ InFlight(st) \in {0, 1}
            /\ InFlight(st) = 1 <=> (st.pc = "await" /\ st.proc.state = "running")
            /\ \A i \in 2..Len(st.spawned) : LetGoOn(st, i - 1)
            /\ \A i, j \in 1..Len(st.spawned) :
                  st.spawned[i] = st.spawned[j] => i = j
            /\ \A i \in 1..Len(st.events) :
                  ~LetGoOn(st, i) => (i = Len(st.spawned) /\ st.pc = "exited")

\* the publish command in flight, after six commands that ended one by one
C13_Witness ==
    \E r \in Runners :
        /\ Len(run[r].spawned) = 7
        /\ Len(run[r].events) = 6
        /\ run[r].proc.step = "publish"
        /\ ExitedWith(run[r], 2, "probe", 1)

-----------------------------------------------------------------------------
(* C14 *)

\* the invocation's probe reported the tag absent
ProbeSawAbsent(st) == ExitedWith(st, 2, "probe", 1)

\* C14: the probe-then-create sequence is a check-then-act that is not atomic: once
\* a run's probe has reported the tag absent, nothing looks at the repository again,
\* so the run goes on to `git tag` and `git push` whatever another run has created
\* in the meantime; it never ends as "tag already exists".
C14_NothingButTheProbe ==
    \A r \in Runners :
        LET st == run[r]
        IN  ProbeSawAbsent(st) =>
              /\ Outcome(st) # "NeutralStop"
              /\ ~Logged(st, "Tag already exists: " \o TagName(st))
              /\ (ExitedWith(st, 3, "userName", 0) /\ ExitedWith(st, 4, "userEmail", 0)) =>
                    (Len(st.spawned) >= 5 /\ st.spawned[5] = TagCmd(TagMessage(st), TagName(st)))
              /\ ExitedWith(st, 5, "tag", 0) =>
                    (Len(st.spawned) >= 6 /\ st.spawned[6] = PushCmd(TagName(st)))

\* two runs at the same time both saw the tag absent and both spawned `git tag`:
\* one created and pushed the tag, the other failed on the duplicate
C14_Witness ==
    \E r1, r2 \in Runners :
        /\ r1 # r2
        /\ ProbeSawAbsent(run[r1]) /\ ProbeSawAbsent(run[r2])
        /\ ExitedWith(run[r1], 6, "push", 0)
        /\ ExitedWith(run[r2], 5, "tag", 128)
        /\ run[r1].spawned[5] = run[r2].spawned[5]
        /\ Outcome(run[r2]) = "Fatal"

-----------------------------------------------------------------------------
(* C15 *)

\* the package file was read and parsed, and holds null or no version
VersionMissing(st) ==
    packageFile.state \in {"null", "noVersion"} /\ PackageWasRead(st)

\* C15: package metadata that is valid but holds no version field (or is null) ends
\* the run in Fatal, changed=false and a non-zero exit status, before any subprocess
\* is spawned and before the commit list is examined.
C15_MissingVersionIsFatal ==
    \A r \in Invoked :
        VersionMissing(run[r]) =>
            /\ Outcome(run[r]) = "Fatal"
            /\ run[r].error = Error("missing version field!")
            /\ run[r].outputs = <<ChangedFalse>>
            /\ ExitStatus(run[r]) # 0
            /\ run[r].console = <<"missing version field!">>
            /\ run[r].spawned = <<>>
            /\ run[r].foundCommit = NoCommit
            /\ run[r].version = ""

\* a push with commits, on a package file that parses to null
C15_Witness ==
    \E r \in Runners :
        /\ VersionMissing(run[r])
        /\ packageFile.state = "null"
        /\ Len(run[r].commits) = MaxCommits
        /\ run[r].exitCode = 1

-----------------------------------------------------------------------------
(* C16 *)

\* the step that spawned subprocess i of the invocation
StepOf(st, i) == IF i <= Len(st.events) THEN st.events[i].step ELSE st.proc.step

\* the places of the publish command in the invocation's spawn log
PublishSpawns(st) ==
    {i \in 1..Len(st.spawned) :
        StepOf(st, i) = "publish" \/ st.spawned[i][1] \in {"yarn", "npm", "pnpm"}}

\* C16: the publish command is spawned at most once per run, only after a commit
\* matching the release was found, and, with tagging on, only after the push of the
\* tag exited 0.
C16_PublishOnceAfterTagPush ==
    \A r \in Invoked :
        LET st == run[r]
        IN  /\ Cardinality(PublishSpawns(st)) <= 1
            /\ \A i \in PublishSpawns(st) :
                  /\ StepOf(st, i) = "publish"
                  /\ st.spawned[i] = PublishCmd(st.config, packageFile.version)
                  /\ ExitedWith(st, 1, "safeDirectory", 0)
                  /\ st.foundCommit # NoCommit
                  /\ \E k \in 1..Len(eventFile.commits) :
                        /\ eventFile.commits[k] = st.foundCommit
                        /\ CommitMatches(st.config, st.foundCommit, packageFile.version)
                  /\ Logged(st, "Found commit: " \o Joined(st.foundCommit.message, " "))
                  /\ IF st.config.createTag
                        THEN /\ i = 7
                             /\ ExitedWith(st, 6, "push", 0)
                             /\ ExitedWith(st, 5, "tag", 0)
                             /\ TagName(st) \in remoteTags
                        ELSE i = 2

\* with tagging on, the publish command in flight after the push exited 0
C16_Witness ==
    \E r \in Runners :
        /\ run[r].config # NoConfig /\ run[r].config.createTag
        /\ PublishSpawns(run[r]) = {7}
        /\ run[r].pc = "await"
        /\ ExitedWith(run[r], 6, "push", 0)

-----------------------------------------------------------------------------
(* C17 *)

\* the inputs are those of a release with tagging on: the event and the package
\* file load, the templates are accepted, and a commit matches the version
ReleaseInputs ==
    /\ eventFile.state = "ok"
    /\ packageFile.state = "ok"
    /\ createTagFlag
    /\ ~SomeTemplateLacksPlaceholder
    /\ LET config == MainConfig
       IN  \E k \in 1..Len(eventFile.commits) :
              CommitMatches(config, eventFile.commits[k], packageFile.version)

\* the tag of the release
ReleaseTag == replaceAll(placeholderEnv("TAG_NAME", <<"v", "%s">>), packageFile.version)

\* the tag of the release exists, and it is not this invocation that created it
TagExistedBefore(st) ==
    /\ localTags # {}
    /\ ReleaseTag \in localTags
    /\ ~ExitedWith(st, 5, "tag", 0)

\* C17 as stated: with tagging on, once the tag ref of the version exists, every
\* later run on the same repository and version ends in NeutralStop and never
\* spawns the publish command.
C17_LaterRunsAreNeutral ==
    \A r \in Invoked :
        (TagExistedBefore(run[r]) /\ ReleaseInputs) =>
            /\ PublishSpawns(run[r]) = {}
            /\ run[r].pc = "exited" => Outcome(run[r]) = "NeutralStop"

\* C17 amended: with tagging on, once the tag ref of the version exists, no later
\* run on the same repository and version spawns the publish command, `git tag` or
\* `git push`, and none ends in Done: it spawns the safe.directory command and the
\* probe at most, and ends in NeutralStop when both exit 0, in Fatal when either of
\* the two fails (no launch, or for the probe a status other than 0; the probe
\* cannot report the tag absent).
C17_LaterRunsNeverPublish ==
    \A r \in Invoked :
        LET st == run[r]
        IN  (TagExistedBefore(st) /\ ReleaseInputs) =>
              /\ PublishSpawns(st) = {}
              /\ IsPrefix(st.spawned, <<SafeDirectoryCmd, ProbeCmd(ReleaseTag)>>)
              /\ ~ExitedWith(st, 2, "probe", 1)
              /\ Outcome(st) # "Done"
              /\ st.pc = "exited" =>
                    IF ExitedWith(st, 1, "safeDirectory", 0) /\ ExitedWith(st, 2, "probe", 0)
                      THEN /\ Outcome(st) = "NeutralStop"
                           /\ ExitStatus(st) = 0
                           /\ Logged(st, "Tag already exists: " \o ReleaseTag)
                      ELSE /\ Outcome(st) = "Fatal"
                           /\ ExitStatus(st) = 1
                           /\ Failed(st, Len(st.spawned))
                    /\ st.outputs = <<ChangedFalse>>

\* the run after one that created and pushed the tag and then failed to publish:
\* it ends in NeutralStop
C17_Witness ==
    \E r \in Runners :
        /\ ReleaseInputs /\ TagExistedBefore(run[r])
        /\ run[r].runNo = 2
        /\ run[r].history[1] = [outcome |-> "Fatal", tag |-> "Created"]
        /\ Outcome(run[r]) = "NeutralStop"
        /\ ReleaseTag \in remoteTags

\* the run after one whose push failed: the tag is in the repository only
C17_AfterFailedPush ==
    \E r \in Runners :
        /\ ReleaseInputs /\ TagExistedBefore(run[r])
        /\ run[r].runNo = 2
        /\ run[r].history[1] = [outcome |-> "Fatal", tag |-> "Failure"]
        /\ Outcome(run[r]) = "NeutralStop"
        /\ ReleaseTag \notin remoteTags

-----------------------------------------------------------------------------
(* C18 *)

\* the invocation has started and has not ended
Started(st) == st.pc \notin {"idle", "exited"}

\* an ended invocation stays as it ended, as long as the script is not invoked again
TerminalStays(r) ==
    (run[r].pc = "exited" /\ run'[r].runNo = run[r].runNo) =>
        /\ run'[r].pc = "exited"
        /\ Outcome(run'[r]) = Outcome(run[r])
        /\ run'[r].spawned = run[r].spawned
        /\ run'[r].events = run[r].events
        /\ run'[r].outputs = run[r].outputs
        /\ run'[r].console = run[r].console
        /\ run'[r].exitCode = run[r].exitCode

\* while a subprocess is in flight the invocation moves only when the subprocess
\* exits or fails to launch
WaitsForSubprocess(r) ==
    (run[r].pc = "await" /\ run'[r] # run[r]) =>
        /\ Len(run'[r].events) = Len(run[r].events) + 1
        /\ run'[r].events[Len(run'[r].events)].step = run[r].proc.step

\* C18: when every spawned subprocess eventually exits or fails to launch, every run
\* eventually reaches a terminal outcome, one of Done, NeutralStop and Fatal, and
\* after it spawns nothing and writes nothing more; a run leaves the wait for a
\* subprocess only by that subprocess's exit or launch failure, so a subprocess that
\* never exits keeps the run from ever ending.
C18_Termination ==
    /\ \A r \in Runners :
          Started(run[r]) ~>
              (run[r].pc = "exited" /\ Outcome(run[r]) \in {"Done", "NeutralStop", "Fatal"})
    /\ [][\A r \in Runners : TerminalStays(r)]_vars
    /\ [][\A r \in Runners : WaitsForSubprocess(r)]_vars

\* a run that went through all seven subprocesses and ended in Done
C18_Witness ==
    \E r \in Runners :
        /\ Outcome(run[r]) = "Done"
        /\ Len(run[r].events) = 7
        /\ run[r].proc = NoProc

====
